---------------------------- MODULE Spec2Model ----------------------------
(***************************************************************************)
(* LSEP v2.0 SafetyDecisionEngine (src/examples/safety_decision_engine.py) *)
(*                                                                         *)
(* Units.  Python floats are modelled by integers in fixed units:          *)
(*   distance_m           decimetres        (1.5 m   -> 15)                *)
(*   closing_velocity_ms  decimetres / s    (1.0 m/s -> 10)                *)
(*   confidence           hundredths        (0.7     -> 70)                *)
(*   timestamp            seconds           (2.0 s   -> 2)                 *)
(*   TTC thresholds       deciseconds       (0.5 s   -> 5)                 *)
(* A TTC is the exact rational num/den deciseconds, or infinity.           *)
(***************************************************************************)
EXTENDS Integers, Sequences, FiniteSets

\* ------------------------------------------------------------- bounds ---
\* Largest timestamp (seconds) a caller supplies.
MaxTime == 3
\* The caller stops feeding readings once the audit trail holds this many
\* entries.
MaxHist == 2

\* ---------------------------------------------------------- LSEPState ---
LadderStates == {"IDLE", "AWARENESS", "INTENT", "CARE", "CRITICAL", "THREAT"}

ExtendedStates == {"MED_CONF", "LOW_CONF", "INTEGRITY"}

LSEPState == LadderStates \cup ExtendedStates

\* ---------------------------------------------------- class constants ---
\* TTC_THRESHOLDS, in dict insertion order, thresholds in deciseconds.
TTC_THRESHOLDS ==
    << <<"THREAT", 5>>, <<"CRITICAL", 15>>, <<"CARE", 30>>,
       <<"INTENT", 50>>, <<"AWARENESS", 100>> >>

PROXIMITY_FLOOR_M == 15

HYSTERESIS_BYPASS_TTC_S == 5

HYSTERESIS_COOLDOWN_S == 2

CONFIDENCE_MED == 70

CONFIDENCE_LOW == 40

\* severity_order of _apply_hysteresis (1-based here; Python's is 0-based).
severity_order ==
    << "IDLE", "AWARENESS", "INTENT", "CARE", "CRITICAL", "THREAT" >>

\* ------------------------------------------------------ SensorReading ---
\* A value time.time() can return: the Unix epoch clock, far above any
\* small timestamp a caller supplies by hand.
Epoch == 100

WallClock == {Epoch, Epoch + 1}

\* The dataclass constructor followed by __post_init__: a timestamp equal
\* to 0.0 (the field's default) is replaced by the wall clock `now`.
SensorReading(distance_m, closing_velocity_ms, confidence, timestamp, now) ==
    [ distance_m          |-> distance_m,
      closing_velocity_ms |-> closing_velocity_ms,
      confidence          |-> confidence,
      timestamp           |-> IF timestamp = 0 THEN now ELSE timestamp ]

\* ------------------------------------------------------------ helpers ---
Infinity == [inf |-> TRUE, num |-> 0, den |-> 1]

\* Variant: <= in place of <.
TtcLess_or_equal(ttc, threshold) ==
    /\ ~ttc.inf
    /\ ttc.num <= threshold * ttc.den

\* ttc < threshold, float comparison of a TTC with a finite threshold
\* (deciseconds).  inf < x is False.
TtcLess(ttc, threshold) ==
    /\ ~ttc.inf
    /\ ttc.num < threshold * ttc.den

\* ttc == float('inf')
IsInf(ttc) == ttc.inf

\* Variant: a state outside the list ranks below IDLE (-1, as str.find
\* reports a miss) instead of 0.
SeverityIdx_miss_is_minus_one(s) ==
    CASE s = "IDLE"      -> 0
      [] s = "AWARENESS" -> 1
      [] s = "INTENT"    -> 2
      [] s = "CARE"      -> 3
      [] s = "CRITICAL"  -> 4
      [] s = "THREAT"    -> 5
      [] OTHER           -> -1

\* list.index on severity_order (1-based); 0 stands for "not in the list".
RECURSIVE IndexFrom(_, _, _)
IndexFrom(seq, x, i) ==
    IF i > Len(seq) THEN 0
    ELSE IF seq[i] = x THEN i
    ELSE IndexFrom(seq, x, i + 1)

\* severity_order.index(s) if s in severity_order else 0, as a 0-based rank.
SeverityIdx(s) ==
    LET i == IndexFrom(severity_order, s, 1)
    IN  IF i > 0 THEN i - 1 ELSE 0

\* -------------------------------------------------------- compute_ttc ---
\* Variant: only a negative velocity counts as not approaching.
compute_ttc_zero_divides(distance_m, closing_velocity_ms) ==
    IF closing_velocity_ms < 0
    THEN [inf |-> TRUE, num |-> 0, den |-> 1]
    ELSE [inf |-> FALSE, num |-> 10 * distance_m, den |-> closing_velocity_ms]

compute_ttc(distance_m, closing_velocity_ms) ==
    IF closing_velocity_ms <= 0
    THEN Infinity
    ELSE [inf |-> FALSE, num |-> 10 * distance_m, den |-> closing_velocity_ms]

\* ------------------------------------------------------- engine state ---
VARIABLES
    current_state,          \* self._current_state
    last_transition_time,   \* self._last_transition_time
    state_history,          \* self._state_history: <<timestamp, state, ttc_at_transition>>
    reading,                \* the SensorReading the caller holds
    result,                 \* value returned by the last determine_state call
    candidate,              \* determine_state's local `target` in that call
    last_unsafe_time,       \* history variable, see DetermineState
    caller_ttc,             \* the caller's `ttc` (line 209), from compute_ttc
    fed,                    \* indices of the scenario readings fed so far
    supplied,               \* last timestamp argument the caller supplied
    pc                      \* caller position: "idle", "ready", "returned"

vars == << current_state, last_transition_time, state_history,
           reading, result, candidate, last_unsafe_time, caller_ttc, fed,
           supplied, pc >>

engine_vars == << current_state, last_transition_time, state_history >>

\* The engine's state triple as one value.
Engine == [ current_state        |-> current_state,
            last_transition_time |-> last_transition_time,
            state_history        |-> state_history ]

NoReading == [ distance_m |-> 0, closing_velocity_ms |-> 0,
               confidence |-> 0, timestamp |-> 0 ]

\* The caller's `ttc` before compute_ttc has been called for a reading.
NoTtc == [inf |-> FALSE, num |-> 0, den |-> 0]

\* -------------------------------------------------------- _transition ---
\* An engine operation yields the engine's three fields after the call and
\* `ret`, the state it returns.
\* The engine left as it is, current_state returned.
Unchanged(eng) ==
    [ current_state        |-> eng.current_state,
      last_transition_time |-> eng.last_transition_time,
      state_history        |-> eng.state_history,
      ret                  |-> eng.current_state ]

\* The body of _transition's if: append, set the state, set the time.
Recorded(eng, new_state, timestamp) ==
    [ current_state        |-> new_state,
      last_transition_time |-> timestamp,
      state_history        |->
          Append(eng.state_history, <<timestamp, new_state, timestamp>>),
      ret                  |-> new_state ]

\* Variant: the recorder itself refuses a change during the cooldown.
transition_cooldown(eng, new_state, timestamp) ==
    IF /\ new_state # eng.current_state
       /\ timestamp - eng.last_transition_time >= HYSTERESIS_COOLDOWN_S
    THEN Recorded(eng, new_state, timestamp)
    ELSE Unchanged(eng)

\* Variant: the entry is appended without comparing with the current state.
transition_always_append(eng, new_state, timestamp) ==
    Recorded(eng, new_state, timestamp)

\* Variant: last_transition_time is not set.
transition_keeps_time(eng, new_state, timestamp) ==
    IF new_state # eng.current_state
    THEN [ Recorded(eng, new_state, timestamp)
               EXCEPT !.last_transition_time = eng.last_transition_time ]
    ELSE Unchanged(eng)

transition(eng, new_state, timestamp) ==
    IF new_state # eng.current_state
    THEN Recorded(eng, new_state, timestamp)
    ELSE Unchanged(eng)

\* --------------------------------------------------- _apply_hysteresis ---
\* Variant: the cooldown is tested before the escalation.
apply_hysteresis_cooldown_first(eng, target, timestamp) ==
    IF timestamp - eng.last_transition_time >= HYSTERESIS_COOLDOWN_S
    THEN transition(eng, target, timestamp)
    ELSE Unchanged(eng)

\* Variant: the cooldown compares the timestamp itself, not the time elapsed
\* since the last transition.
apply_hysteresis_absolute_time(eng, target, timestamp) ==
    IF SeverityIdx(target) > SeverityIdx(eng.current_state)
    THEN transition(eng, target, timestamp)
    ELSE IF timestamp >= HYSTERESIS_COOLDOWN_S
    THEN transition(eng, target, timestamp)
    ELSE Unchanged(eng)

\* Variant: the cooldown must be exceeded, not just reached.
apply_hysteresis_strict_cooldown(eng, target, timestamp) ==
    IF SeverityIdx(target) > SeverityIdx(eng.current_state)
    THEN transition(eng, target, timestamp)
    ELSE IF timestamp - eng.last_transition_time > HYSTERESIS_COOLDOWN_S
    THEN transition(eng, target, timestamp)
    ELSE Unchanged(eng)

\* Variant: a hold returns the candidate it did not apply.
apply_hysteresis_hold_returns_target(eng, target, timestamp) ==
    IF SeverityIdx(target) > SeverityIdx(eng.current_state)
    THEN transition(eng, target, timestamp)
    ELSE IF timestamp - eng.last_transition_time >= HYSTERESIS_COOLDOWN_S
    THEN transition(eng, target, timestamp)
    ELSE [ Unchanged(eng) EXCEPT !.ret = target ]

apply_hysteresis(eng, target, timestamp) ==
    LET current_idx   == SeverityIdx(eng.current_state)
        target_idx    == SeverityIdx(target)
        time_in_state == timestamp - eng.last_transition_time
    IN  IF target_idx > current_idx
        THEN transition(eng, target, timestamp)
        ELSE IF time_in_state >= HYSTERESIS_COOLDOWN_S
        THEN transition(eng, target, timestamp)
        ELSE Unchanged(eng)

\* ----------------------------------------------------- determine_state ---
\* Step 5: the for loop over TTC_THRESHOLDS.items() with its break; the
\* default target is IDLE.
\* Variant: the table is scanned from its last entry (least severe first).
RECURSIVE ScanThresholds_least_severe_first(_, _)
ScanThresholds_least_severe_first(ttc, i) ==
    LET j == Len(TTC_THRESHOLDS) + 1 - i
    IN  IF j < 1 THEN "IDLE"
        ELSE IF TtcLess(ttc, TTC_THRESHOLDS[j][2]) THEN TTC_THRESHOLDS[j][1]
        ELSE ScanThresholds_least_severe_first(ttc, i + 1)

RECURSIVE ScanThresholds(_, _)
ScanThresholds(ttc, i) ==
    IF i > Len(TTC_THRESHOLDS) THEN "IDLE"
    ELSE IF TtcLess(ttc, TTC_THRESHOLDS[i][2]) THEN TTC_THRESHOLDS[i][1]
    ELSE ScanThresholds(ttc, i + 1)

\* The value returned together with the local `target` ("None" on the paths
\* that return before `target` is assigned).
WithTarget(out, t) ==
    [ current_state        |-> out.current_state,
      last_transition_time |-> out.last_transition_time,
      state_history        |-> out.state_history,
      ret                  |-> out.ret,
      target               |-> t ]

\* Variant: step 4, the proximity floor, is left out.
Target_without_floor(r) ==
    ScanThresholds(compute_ttc(r.distance_m, r.closing_velocity_ms), 1)

\* Steps 4 and 5: the candidate handed to _apply_hysteresis.
Target(r) ==
    LET ttc == compute_ttc(r.distance_m, r.closing_velocity_ms)
    IN  IF r.distance_m < PROXIMITY_FLOOR_M /\ IsInf(ttc)
        THEN "AWARENESS"
        ELSE ScanThresholds(ttc, 1)

\* Variant: the lowest confidence band is reported with the wrong extended
\* state, INTEGRITY.
determine_state_low_is_integrity(eng, r) ==
    IF r.confidence < CONFIDENCE_LOW
    THEN WithTarget(transition(eng, "INTEGRITY", r.timestamp), "None")
    ELSE IF r.confidence < CONFIDENCE_MED
    THEN WithTarget(transition(eng, "MED_CONF", r.timestamp), "None")
    ELSE LET ttc == compute_ttc(r.distance_m, r.closing_velocity_ms)
         IN  IF TtcLess(ttc, HYSTERESIS_BYPASS_TTC_S)
             THEN WithTarget(transition(eng, "THREAT", r.timestamp), "None")
             ELSE WithTarget(apply_hysteresis(eng, Target(r), r.timestamp),
                             Target(r))

\* Variant: the degraded states are candidates for the hysteresis filter.
determine_state_gate_filtered(eng, r) ==
    IF r.confidence < CONFIDENCE_LOW
    THEN WithTarget(apply_hysteresis(eng, "LOW_CONF", r.timestamp), "None")
    ELSE IF r.confidence < CONFIDENCE_MED
    THEN WithTarget(apply_hysteresis(eng, "MED_CONF", r.timestamp), "None")
    ELSE LET ttc == compute_ttc(r.distance_m, r.closing_velocity_ms)
         IN  IF TtcLess(ttc, HYSTERESIS_BYPASS_TTC_S)
             THEN WithTarget(transition(eng, "THREAT", r.timestamp), "None")
             ELSE WithTarget(apply_hysteresis(eng, Target(r), r.timestamp),
                             Target(r))

determine_state(eng, r) ==
    IF r.confidence < CONFIDENCE_LOW
    THEN WithTarget(transition(eng, "LOW_CONF", r.timestamp), "None")
    ELSE IF r.confidence < CONFIDENCE_MED
    THEN WithTarget(transition(eng, "MED_CONF", r.timestamp), "None")
    ELSE LET ttc == compute_ttc(r.distance_m, r.closing_velocity_ms)
         IN  IF TtcLess(ttc, HYSTERESIS_BYPASS_TTC_S)
             THEN WithTarget(transition(eng, "THREAT", r.timestamp), "None")
             ELSE WithTarget(apply_hysteresis(eng, Target(r), r.timestamp),
                             Target(r))

\* ------------------------------------------------------------- caller ---
\* (distance_m, closing_velocity_ms) pairs the caller draws from: one per
\* TTC band and threshold, plus the not-approaching cases.
Kinematics ==
    { <<5, 20>>,    \* 0.25 s
      <<5, 10>>,    \* 0.5 s
      <<12, 10>>,   \* 1.2 s
      <<15, 10>>,   \* 1.5 s
      <<30, 10>>,   \* 3.0 s
      <<50, 10>>,   \* 5.0 s
      <<100, 10>>,  \* 10.0 s
      <<12, 1>>,    \* 12 s, within 1.5 m
      <<12, 0>>,    \* stationary, within 1.5 m
      <<12, -5>>,   \* receding, within 1.5 m
      <<15, 0>>,    \* stationary at exactly 1.5 m
      <<100, -5>> } \* receding, far

\* Inputs (distance, velocity, confidence): trusted readings over all of
\* Kinematics, degraded ones over a fast approach and a far, receding human.
Inputs ==
    { <<k[1], k[2], 70>> : k \in Kinematics }
    \cup { <<5, 20, c>> : c \in {39, 40, 69, 95} }
    \cup { <<100, -5, c>> : c \in {39, 40, 69} }

Timestamps == 0 .. MaxTime

Init ==
    /\ current_state = "IDLE"
    /\ last_transition_time = 0
    /\ state_history = << >>
    /\ reading = NoReading
    /\ result = "None"
    /\ candidate = "None"
    /\ last_unsafe_time = -1
    /\ caller_ttc = NoTtc
    /\ fed = << >>
    /\ supplied = 0
    /\ pc = "idle"

\* The caller builds a SensorReading from one of `args`, tuples (distance,
\* velocity, confidence, timestamp), while the audit trail is shorter than
\* `limit`.
Feed(args, limit) ==
    /\ pc = "idle"
    /\ Len(state_history) < limit
    /\ \E a \in args, now \in WallClock :
          /\ reading' = SensorReading(a[1], a[2], a[3], a[4], now)
          /\ supplied' = a[4]
    /\ pc' = "ready"
    /\ UNCHANGED << engine_vars, result, candidate, last_unsafe_time, caller_ttc, fed >>

\* The caller builds a SensorReading with a timestamp of `timestamps`.
Construct(timestamps) ==
    Feed({ <<i[1], i[2], i[3], ts>> : i \in Inputs, ts \in timestamps }, MaxHist)

\* The candidate severity a trusted reading stands for: THREAT on the bypass
\* path, `target` otherwise.
CandidateOf(out) == IF out.target = "None" THEN "THREAT" ELSE out.target

\* state = engine.determine_state(reading), then
\* ttc = engine.compute_ttc(reading.distance_m, reading.closing_velocity_ms).
\* last_unsafe_time is a history variable, recorded when `track` is set: the
\* timestamp of the latest reading with confidence >= CONFIDENCE_MED whose
\* candidate was at least as severe as the state the engine held after that
\* call (-1: none yet).
DetermineState(track) ==
    /\ pc = "ready"
    /\ LET out == determine_state(Engine, reading)
       IN  /\ current_state' = out.current_state
           /\ last_transition_time' = out.last_transition_time
           /\ state_history' = out.state_history
           /\ result' = out.ret
           /\ candidate' = out.target
           /\ last_unsafe_time' =
                 IF /\ track
                    /\ reading.confidence >= CONFIDENCE_MED
                    /\ SeverityIdx(CandidateOf(out)) >= SeverityIdx(out.current_state)
                 THEN reading.timestamp
                 ELSE last_unsafe_time
    /\ caller_ttc' = compute_ttc(reading.distance_m, reading.closing_velocity_ms)
    /\ pc' = "returned"
    /\ UNCHANGED << reading, supplied, fed >>

\* The caller has used the returned state and drops the reading.
Return ==
    /\ pc = "returned"
    /\ reading' = NoReading
    /\ result' = "None"
    /\ candidate' = "None"
    /\ caller_ttc' = NoTtc
    /\ pc' = "idle"
    /\ UNCHANGED << engine_vars, last_unsafe_time, supplied, fed >>

\* Any caller: timestamps in any order.
Next ==
    \/ Construct(Timestamps)
    \/ DetermineState(FALSE)
    \/ Return

Spec == Init /\ [][Next]_vars

\* A caller that keeps the ordering contract: supplied timestamps are
\* non-decreasing.  This specification also records last_unsafe_time.
OrderedNext ==
    \/ Construct({ts \in Timestamps : ts >= supplied})
    \/ DetermineState(TRUE)
    \/ Return

OrderedSpec == Init /\ [][OrderedNext]_vars

\* The ordered caller, supplying only nonzero timestamps (so that none is
\* replaced by the wall clock), and feeding until the audit trail holds one
\* entry more.
DeepNext ==
    \/ Feed({ <<i[1], i[2], i[3], ts>> :
                i \in Inputs,
                ts \in {t \in Timestamps : t >= supplied /\ t # 0} },
            MaxHist + 1)
    \/ DetermineState(FALSE)
    \/ Return

DeepSpec == Init /\ [][DeepNext]_vars

\* The demo's scenarios list: (distance, velocity, confidence, timestamp).
Scenario ==
    << <<120, 0, 95, 0>>, <<80, 12, 95, 1>>, <<45, 12, 95, 2>>,
       <<28, 12, 95, 3>>, <<12, 15, 95, 4>>, <<4, 20, 95, 5>> >>

\* The caller builds one of the scenario's readings; it makes as many calls
\* as the list is long.  The demo feeds them in list order: fed = <<1, 2, ..>>.
ScenarioFeed ==
    /\ pc = "idle"
    /\ Len(fed) < Len(Scenario)
    /\ \E k \in 1 .. Len(Scenario), now \in WallClock :
          /\ reading' = SensorReading(Scenario[k][1], Scenario[k][2],
                                      Scenario[k][3], Scenario[k][4], now)
          /\ supplied' = Scenario[k][4]
          /\ fed' = Append(fed, k)
    /\ pc' = "ready"
    /\ UNCHANGED << engine_vars, result, candidate, last_unsafe_time, caller_ttc >>

ScenarioNext ==
    \/ ScenarioFeed
    \/ DetermineState(FALSE)
    \/ Return

ScenarioSpec == Init /\ [][ScenarioNext]_vars

\* ------------------------------------------------- terms of the claims ---
\* Severity rank of the ladder, low to high; every extended state ranks 0.
Rank(s) ==
    CASE s = "AWARENESS" -> 1
      [] s = "INTENT"    -> 2
      [] s = "CARE"      -> 3
      [] s = "CRITICAL"  -> 4
      [] s = "THREAT"    -> 5
      [] OTHER           -> 0

\* The reading is trusted: confidence >= 0.7.
Trusted == reading.confidence >= 70

\* distance / velocity < 0.5 s for an approaching human (v > 0): 2 d < v.
TtcBelowHalf ==
    /\ reading.closing_velocity_ms > 0
    /\ 2 * reading.distance_m < reading.closing_velocity_ms

\* Within 1.5 m and not closing: the proximity floor's case.
InProximityFloor ==
    /\ reading.distance_m < 15
    /\ reading.closing_velocity_ms <= 0

LastEntry == state_history[Len(state_history)]

\* ----------------------------------------------------------------- C1 ---
\* C1: after a determine_state call on a reading with confidence >= 0.7 and
\* TTC < 0.5 s, from any engine state, the returned state and current_state
\* are both THREAT; the cooldown never holds it off.
C1_ThreatBypass ==
    (pc = "returned" /\ Trusted /\ TtcBelowHalf)
        => (result = "THREAT" /\ current_state = "THREAT")

\* A THREAT reading was applied less than 2 s after a transition into a
\* lower ladder state.
C1_Witness ==
    /\ pc = "returned" /\ Trusted /\ TtcBelowHalf
    /\ result = "THREAT"
    /\ Len(state_history) = 2
    /\ state_history[2] = <<reading.timestamp, "THREAT", reading.timestamp>>
    /\ state_history[1][2] \in LadderStates
    /\ reading.timestamp - state_history[1][1] \in {0, 1}

\* ----------------------------------------------------------------- C2 ---
\* The candidate of the call just made: THREAT on the bypass path, the local
\* `target` otherwise.
C2_Cand == IF candidate' = "None" THEN "THREAT" ELSE candidate'

C2_Step ==
    (/\ pc = "ready"
     /\ Trusted
     /\ Rank(C2_Cand) > Rank(current_state))
        => /\ current_state' = C2_Cand
           /\ result' = C2_Cand
           /\ state_history' =
                Append(state_history,
                       <<reading.timestamp, C2_Cand, reading.timestamp>>)

\* C2: a determine_state call (confidence >= 0.7) whose candidate ranks
\* strictly above current_state applies the transition in that call, whatever
\* the time since last_transition_time: current_state becomes the candidate
\* and exactly one history entry with the call's timestamp is appended.
C2_EscalationImmediate == [][C2_Step]_vars

\* An escalation through the hysteresis filter, applied less than 2 s after
\* the previous transition.
C2_Witness ==
    /\ pc = "returned" /\ Trusted
    /\ candidate # "None"
    /\ Len(state_history) = 2
    /\ state_history[2] = <<reading.timestamp, candidate, reading.timestamp>>
    /\ current_state = candidate
    /\ state_history[1][2] \in LadderStates
    /\ Rank(candidate) > Rank(state_history[1][2])
    /\ reading.timestamp - state_history[1][1] \in {0, 1}

\* ----------------------------------------------------------------- C3 ---
C3_Step ==
    (/\ pc = "ready"
     /\ Trusted
     /\ candidate' # "None"
     /\ Rank(candidate') <= Rank(current_state)
     /\ reading.timestamp - last_transition_time < 2)
        => /\ result' = current_state
           /\ UNCHANGED engine_vars

\* C3: when the hysteresis filter gets a candidate ranking at or below
\* current_state and timestamp - last_transition_time < 2.0, the call holds:
\* it returns the old current_state and leaves current_state,
\* last_transition_time and history unchanged.
C3_HoldDuringCooldown == [][C3_Step]_vars

\* A less severe candidate was held one second or less after the transition.
C3_Witness ==
    /\ pc = "returned" /\ Trusted
    /\ candidate # "None"
    /\ Rank(candidate) < Rank(current_state)
    /\ result = current_state
    /\ Len(state_history) > 0
    /\ reading.timestamp - last_transition_time \in {0, 1}

\* ----------------------------------------------------------------- C4 ---
C4_Step ==
    (/\ pc = "ready"
     /\ current_state \in LadderStates
     /\ current_state' \in LadderStates
     /\ Rank(current_state') < Rank(current_state))
        => \/ last_unsafe_time = -1
           \/ reading.timestamp - last_unsafe_time >= 2
           \/ reading.timestamp - last_unsafe_time < 0

\* C4: the engine de-escalates to a less severe ladder state only when no
\* reading processed in the 2.0 s before the call had a candidate at least as
\* severe as the state being left (safe readings persisted for the cooldown).
C4_SustainedSafeReadings == [][C4_Step]_vars

C6_ThreatOverridesConfidence ==
    (pc = "returned" /\ TtcBelowHalf) => result = "THREAT"

\* ----------------------------------------------------------------- C7 ---
C7_Step ==
    /\ (state_history' # state_history) <=> (current_state' # current_state)
    /\ \/ state_history' = state_history
       \/ /\ Len(state_history') = Len(state_history) + 1
          /\ SubSeq(state_history', 1, Len(state_history)) = state_history

C7_Shape ==
    /\ state_history # << >> =>
          /\ state_history[1][2] # "IDLE"
          /\ LastEntry[2] = current_state
    /\ state_history = << >> => current_state = "IDLE"
    /\ \A i \in 1 .. Len(state_history) - 1 :
          state_history[i][2] # state_history[i + 1][2]

\* C7: a call appends a history entry iff current_state changes in it; so
\* the first entry is not IDLE, consecutive entries differ in state, and the
\* last entry's state is current_state.
C7_HistoryRecordsChanges == []C7_Shape /\ [][C7_Step]_vars

\* One recorded change to LOW_CONF, then a later low-confidence call that
\* went through _transition, changed nothing and appended nothing.
C7_Witness ==
    /\ pc = "returned"
    /\ reading.confidence < 40
    /\ Len(state_history) = 1
    /\ state_history[1][2] = "LOW_CONF"
    /\ current_state = "LOW_CONF"
    /\ reading.timestamp > state_history[1][1]

\* ----------------------------------------------------------------- C8 ---
\* C8: last_transition_time is the timestamp of the last history entry, and
\* 0 while history is empty.
C8_LastTransitionTime ==
    last_transition_time =
        IF state_history = << >> THEN 0 ELSE LastEntry[1]

\* Two transitions at different times; last_transition_time is the second's.
C8_Witness ==
    /\ Len(state_history) = 2
    /\ state_history[1][1] # state_history[2][1]
    /\ last_transition_time = state_history[2][1]

\* ----------------------------------------------------------------- C9 ---
\* C9: with non-decreasing supplied timestamps (0.0 included) the history
\* timestamps are non-decreasing in insertion order.
C9_HistoryOrdered ==
    \A i \in 1 .. Len(state_history) - 1 :
        state_history[i][1] <= state_history[i + 1][1]

\* ---------------------------------------------------------------- C10 ---
\* First threshold of the table, most severe first, that strictly exceeds
\* d / v; IDLE when not closing or when d / v >= 10.
C10_Expected ==
    LET d == reading.distance_m
        v == reading.closing_velocity_ms
    IN  IF v <= 0 THEN "IDLE"
        ELSE IF 10 * d < 5 * v   THEN "THREAT"
        ELSE IF 10 * d < 15 * v  THEN "CRITICAL"
        ELSE IF 10 * d < 30 * v  THEN "CARE"
        ELSE IF 10 * d < 50 * v  THEN "INTENT"
        ELSE IF 10 * d < 100 * v THEN "AWARENESS"
        ELSE "IDLE"

\* TTC exactly on a threshold: (distance, velocity, expected candidate).
C10_Boundaries ==
    { <<5, 10, "CRITICAL">>, <<15, 10, "CARE">>, <<30, 10, "INTENT">>,
      <<50, 10, "AWARENESS">>, <<100, 10, "IDLE">> }

\* C10: for a trusted reading outside the THREAT bypass and the proximity
\* floor, the candidate handed to the hysteresis filter is the first table
\* entry whose threshold strictly exceeds the TTC, IDLE when the TTC is
\* infinite or >= 10; a TTC equal to a threshold maps to the next less
\* severe state.
C10_ThresholdMapping ==
    (pc = "returned" /\ Trusted /\ ~TtcBelowHalf /\ ~InProximityFloor)
        => /\ candidate = C10_Expected
           /\ \A b \in C10_Boundaries :
                 (reading.distance_m = b[1] /\ reading.closing_velocity_ms = b[2])
                     => candidate = b[3]

\* A TTC of exactly 1.5 s was mapped to CARE and applied.
C10_Witness ==
    /\ pc = "returned" /\ Trusted
    /\ reading.distance_m = 15 /\ reading.closing_velocity_ms = 10
    /\ candidate = "CARE"
    /\ current_state = "CARE"

\* ---------------------------------------------------------------- C11 ---
\* C11: for a trusted reading within 1.5 m and not closing, from any engine
\* state, the candidate is AWARENESS and the returned state is a ladder state
\* of rank AWARENESS or above (not IDLE, not an extended state).
C11_ProximityFloor ==
    (pc = "returned" /\ Trusted /\ InProximityFloor)
        => /\ candidate = "AWARENESS"
           /\ result \in LadderStates
           /\ Rank(result) >= 1

\* The floor lifted the engine out of an extended state at once.
C11_Witness ==
    /\ pc = "returned" /\ Trusted /\ InProximityFloor
    /\ Len(state_history) = 2
    /\ state_history[1][2] \in {"MED_CONF", "LOW_CONF"}
    /\ state_history[2] = <<reading.timestamp, "AWARENESS", reading.timestamp>>
    /\ result = "AWARENESS"

\* ---------------------------------------------------------------- C12 ---
\* C12: a trusted reading within 1.5 m never returns IDLE, whatever the
\* closing velocity.
C12_NearNeverIdle ==
    (pc = "returned" /\ Trusted /\ reading.distance_m < 15)
        => result # "IDLE"

\* ---------------------------------------------------------------- C13 ---
\* What the scenario's six calls return.
C13_Returns ==
    << "IDLE", "AWARENESS", "INTENT", "CARE", "CRITICAL", "THREAT" >>

\* The history after the six calls.
C13_History ==
    << <<1, "AWARENESS", 1>>, <<2, "INTENT", 2>>, <<3, "CARE", 3>>,
       <<4, "CRITICAL", 4>>, <<5, "THREAT", 5>> >>

\* The readings fed so far are the first ones of the list, in its order.
C13_InOrder == \A i \in 1 .. Len(fed) : fed[i] = i

\* Number of calls that have returned.
C13_Calls == IF pc = "ready" THEN Len(fed) - 1 ELSE Len(fed)

\* C13: a fresh engine fed the six scenario readings in order returns IDLE,
\* AWARENESS, INTENT, CARE, CRITICAL, THREAT, each transition recorded in the
\* call that causes it; the history ends with exactly 5 entries, timestamps
\* 1.0 to 5.0, the t=0 reading appending nothing.
C13_Scenario ==
    C13_InOrder =>
        /\ pc = "returned" => result = C13_Returns[Len(fed)]
        /\ state_history =
              IF C13_Calls <= 1 THEN << >>
              ELSE SubSeq(C13_History, 1, C13_Calls - 1)

\* All six readings fed in order, the last call returned.
C13_Witness ==
    /\ C13_InOrder
    /\ Len(fed) = 6
    /\ pc = "returned"
    /\ result = "THREAT"
    /\ Len(state_history) = 5

\* ---------------------------------------------------------------- C14 ---
\* C14: current_state is never INTEGRITY and no history entry carries it.
C14_IntegrityUnreachable ==
    /\ current_state # "INTEGRITY"
    /\ result # "INTEGRITY"
    /\ \A i \in 1 .. Len(state_history) : state_history[i][2] # "INTEGRITY"

\* Both other extended states were entered.
C14_Witness ==
    /\ pc = "returned"
    /\ Len(state_history) = 2
    /\ {state_history[1][2], state_history[2][2]} = {"MED_CONF", "LOW_CONF"}

\* ---------------------------------------------------------------- C15 ---
\* C15: compute_ttc(d, v) is +infinity for v <= 0 and d / v for v > 0, never
\* dividing by a zero or negative denominator; determine_state returns a
\* state for every reading.
C15_ComputeTtc ==
    /\ pc = "returned" =>
          /\ reading.closing_velocity_ms <= 0 => caller_ttc.inf
          /\ reading.closing_velocity_ms > 0 =>
                /\ ~caller_ttc.inf
                /\ caller_ttc.den > 0
                /\ caller_ttc.num * reading.closing_velocity_ms
                       = 10 * reading.distance_m * caller_ttc.den
          /\ result \in LSEPState
    /\ pc = "ready" => ENABLED DetermineState(FALSE)

\* A stationary human: velocity 0, infinite TTC, and a state was returned.
C15_Witness ==
    /\ pc = "returned"
    /\ reading.closing_velocity_ms = 0
    /\ caller_ttc.inf
    /\ result \in LadderStates

\* ---------------------------------------------------------------- C16 ---
C16_Step ==
    (/\ pc = "ready"
     /\ Trusted
     /\ candidate' # "None"
     /\ Rank(candidate') <= Rank(current_state)
     /\ reading.timestamp - last_transition_time >= 2)
        => /\ current_state' = candidate'
           /\ result' = candidate'
           /\ IF candidate' # current_state
              THEN /\ state_history' =
                        Append(state_history,
                               <<reading.timestamp, candidate', reading.timestamp>>)
                   /\ last_transition_time' = reading.timestamp
              ELSE UNCHANGED engine_vars

C17_TimestampKept ==
    pc \in {"ready", "returned"} => reading.timestamp = supplied

\* ---------------------------------------------------------------- C18 ---
C18_Step ==
    (/\ pc = "ready"
     /\ Trusted
     /\ current_state \in {"MED_CONF", "LOW_CONF"})
        => /\ (candidate' # "None" /\ Rank(candidate') >= 1) =>
                 /\ current_state' = candidate'
                 /\ state_history' =
                      Append(state_history,
                             <<reading.timestamp, candidate', reading.timestamp>>)
           /\ (candidate' = "IDLE"
                 /\ reading.timestamp - last_transition_time < 2) =>
                 /\ result' = current_state
                 /\ UNCHANGED engine_vars
           /\ (candidate' = "IDLE"
                 /\ reading.timestamp - last_transition_time >= 2) =>
                 current_state' = "IDLE"

\* C18: with current_state MED_CONF or LOW_CONF (ladder position 0), a trusted
\* reading whose candidate is AWARENESS or higher is applied at once, and one
\* whose candidate is IDLE is held, nothing changed and the extended state
\* returned, until timestamp - last_transition_time >= 2.0.
C18_ExtendedStateRanksZero == [][C18_Step]_vars

\* An IDLE candidate held in an extended state during the cooldown.
C18_Witness ==
    /\ pc = "returned" /\ Trusted
    /\ candidate = "IDLE"
    /\ current_state \in {"MED_CONF", "LOW_CONF"}
    /\ result = current_state
    /\ reading.timestamp - last_transition_time \in {0, 1}

\* ---------------------------------------------------------------- C19 ---
\* Entries i < j are consecutive ladder entries: every entry between them is
\* an extended state.
C19_NextLadder(i, j) ==
    /\ state_history[i][2] \in LadderStates
    /\ state_history[j][2] \in LadderStates
    /\ \A k \in (i + 1) .. (j - 1) : state_history[k][2] \in ExtendedStates

\* C19: if the engine enters ladder state S at t and the next ladder state it
\* holds, possibly after MED_CONF or LOW_CONF, is less severe and entered at
\* t', then t' - t >= 2.0.
C19_CooldownSurvivesConfidenceDrop ==
    \A i, j \in 1 .. Len(state_history) :
        (/\ i < j
         /\ C19_NextLadder(i, j)
         /\ Rank(state_history[j][2]) < Rank(state_history[i][2]))
            => state_history[j][1] - state_history[i][1] >= 2

\* ---------------------------------------------------------------- C20 ---
C20_Step ==
    /\ \/ state_history' = state_history
       \/ /\ Len(state_history') = Len(state_history) + 1
          /\ \A i \in 1 .. Len(state_history) :
                state_history'[i] = state_history[i]
    /\ state_history' = state_history =>
          UNCHANGED << current_state, last_transition_time >>
    /\ pc # "ready" => UNCHANGED engine_vars

\* C20: a determine_state call appends 0 or 1 history entries and alters no
\* existing one; current_state and last_transition_time change only in a call
\* that appends; the value returned is current_state as it is after the call.
C20_OneMutationPerCall ==
    [](pc = "returned" => result = current_state) /\ [][C20_Step]_vars

\* A low-confidence call from a fresh engine: one entry appended, state and
\* time set with it, the new state returned.
C20_Witness ==
    /\ pc = "returned"
    /\ reading.confidence < 40
    /\ state_history = << <<reading.timestamp, "LOW_CONF", reading.timestamp>> >>
    /\ last_transition_time = reading.timestamp
    /\ result = "LOW_CONF" /\ current_state = "LOW_CONF"

=============================================================================
